---- MODULE Spec2Model ----
(***************************************************************************)
(* Interrupt routing core of the nRF52 chip support (chips/nrf52/src/      *)
(* chip.rs): the router InterruptService::service_interrupt and the        *)
(* servicing loop NRF52::service_pending_interrupts, together with the     *)
(* deferred-call queue and the NVIC they consume.                          *)
(***************************************************************************)
EXTENDS Integers, Sequences, FiniteSets, TLC

\* ------------------------------------------------------------------------
\* Bounds of the model
\* ------------------------------------------------------------------------
\* Vector numbers that can become pending in the servicing loop: 0..MaxVector.
\* 0..5 holds a single-owner vector (POWER_CLOCK, UART0), the three shared
\* vectors (RADIO, SPI0_TWI0, SPI1_TWI1) and one that the router does not
\* know (5).
MaxVector == 5
\* Vector numbers handed to the router when it is exercised on its own.
MaxInterrupt == 47
\* Number of arrivals from outside the loop in a run: vectors raised by
\* hardware, tokens posted from task context.
MaxArrivals == 2
\* Number of tokens that handlers running inside the loop post in a run.
MaxPosts == 1

\* ------------------------------------------------------------------------
\* nrf5x::peripheral_interrupts: the vector numbers the router matches on.
\* The values are the nRF52 interrupt numbers of that crate; the router only
\* relies on their being pairwise distinct.
\* ------------------------------------------------------------------------
POWER_CLOCK == 0
RADIO == 1
UART0 == 2
SPI0_TWI0 == 3
SPI1_TWI1 == 4
GPIOTE == 6
ADC == 7
TIMER0 == 8
TIMER1 == 9
TIMER2 == 10
TEMP == 12
RNG == 13
ECB == 14
RTC1 == 17
SPIM2_SPIS2_SPI2 == 35

\* Vectors shared by two peripherals, in the order their is_enabled() is read.
SharedGroup ==
    [v \in {RADIO, SPI0_TWI0, SPI1_TWI1} |->
        CASE v = RADIO -> <<"ieee802154_radio", "ble_radio">>
          [] v = SPI0_TWI0 -> <<"SPIM0", "TWIM0">>
          [] v = SPI1_TWI1 -> <<"SPIM1", "TWIM1">>]

SharedVectors == DOMAIN SharedGroup

\* The peripherals that share vector v (none for any other vector).
Members(v) == IF v \in SharedVectors THEN {SharedGroup[v][1], SharedGroup[v][2]} ELSE {}

\* Peripherals that expose is_enabled().
SharedPeripherals == UNION {Members(v) : v \in SharedVectors}

\* ------------------------------------------------------------------------
\* InterruptService::service_interrupt
\*
\* The result of one call: the handlers invoked (in order), the peripherals
\* whose is_enabled() was read, whether debug! printed, and how the call
\* ended: "true" / "false" (the value returned) or "panic" (a failed
\* debug_assert!, the call does not return).
\* ------------------------------------------------------------------------
Result(handled, queried, debug, outcome) ==
    [handled |-> handled, queried |-> queried, debug |-> debug, outcome |-> outcome]

\* Variant: the arm returns true without calling the handler.
single_no_handler(p) == Result(<<>>, {}, FALSE, "true")

\* `X => P.handle_interrupt()` followed by the trailing `true`.
single(p) == Result(<<p>>, {}, FALSE, "true")

\* Variant: the default arm falls through to the trailing `true`.
unrecognized_true == Result(<<>>, {}, FALSE, "true")

\* `_ => return false`
unrecognized == Result(<<>>, {}, FALSE, "false")

\* Variant: the conflict arm services the 802.15.4 radio.
radio_both_picks_first(a, b) == Result(<<a>>, {a, b}, TRUE, "true")

\* Variant: the RADIO conflict arm asserts like the SPI/TWI arms of a debug
\* build.
radio_both_asserts(a, b) == Result(<<>>, {a, b}, FALSE, "panic")

\* (true, true) of RADIO: debug!(...), then the trailing `true`.
radio_both_enabled(a, b) == Result(<<>>, {a, b}, TRUE, "true")

\* (true, true) of SPI0_TWI0 and SPI1_TWI1: debug_assert!(false, ...), which
\* panics in a build with debug assertions and is compiled out otherwise.
spi_twi_both_enabled(a, b, debug_assertions) ==
    IF debug_assertions
    THEN Result(<<>>, {a, b}, FALSE, "panic")
    ELSE Result(<<>>, {a, b}, FALSE, "true")

\* Variant: the two single-enabled arms call each other's handler.
shared_swapped(a, b, en, both) ==
    CASE a \notin en /\ b \notin en -> Result(<<>>, {a, b}, FALSE, "true")
      [] a \in en /\ b \notin en -> Result(<<b>>, {a, b}, FALSE, "true")
      [] a \notin en /\ b \in en -> Result(<<a>>, {a, b}, FALSE, "true")
      [] a \in en /\ b \in en -> both

\* Variant: the (false, false) arm reports the vector as not recognized.
shared_none_unrecognized(a, b, en, both) ==
    CASE a \notin en /\ b \notin en -> Result(<<>>, {a, b}, FALSE, "false")
      [] a \in en /\ b \notin en -> Result(<<a>>, {a, b}, FALSE, "true")
      [] a \notin en /\ b \in en -> Result(<<b>>, {a, b}, FALSE, "true")
      [] a \in en /\ b \in en -> both

\* Variant: a shared arm with one member enabled runs both members' handlers.
shared_runs_both(a, b, en, both) ==
    IF a \in en /\ b \in en THEN both
    ELSE IF a \in en \/ b \in en THEN Result(<<a, b>>, {a, b}, FALSE, "true")
    ELSE Result(<<>>, {a, b}, FALSE, "false")

\* match (a.is_enabled(), b.is_enabled()) { ... }, where en is the set of
\* peripherals whose is_enabled() is true and both is the (true, true) arm.
shared(a, b, en, both) ==
    CASE a \notin en /\ b \notin en -> Result(<<>>, {a, b}, FALSE, "true")
      [] a \in en /\ b \notin en -> Result(<<a>>, {a, b}, FALSE, "true")
      [] a \notin en /\ b \in en -> Result(<<b>>, {a, b}, FALSE, "true")
      [] a \in en /\ b \in en -> both

service_interrupt(interrupt, en, debug_assertions) ==
    CASE interrupt = ECB -> single("AESECB")
      [] interrupt = GPIOTE -> single("gpio_port")
      [] interrupt = POWER_CLOCK -> single("POWER")
      [] interrupt = RADIO ->
            shared("ieee802154_radio", "ble_radio", en,
                   radio_both_enabled("ieee802154_radio", "ble_radio"))
      [] interrupt = RNG -> single("TRNG")
      [] interrupt = RTC1 -> single("RTC")
      [] interrupt = TEMP -> single("TEMP")
      [] interrupt = TIMER0 -> single("TIMER0")
      [] interrupt = TIMER1 -> single("ALARM1")
      [] interrupt = TIMER2 -> single("TIMER2")
      [] interrupt = UART0 -> single("UARTE0")
      [] interrupt = SPI0_TWI0 ->
            shared("SPIM0", "TWIM0", en,
                   spi_twi_both_enabled("SPIM0", "TWIM0", debug_assertions))
      [] interrupt = SPI1_TWI1 ->
            shared("SPIM1", "TWIM1", en,
                   spi_twi_both_enabled("SPIM1", "TWIM1", debug_assertions))
      [] interrupt = SPIM2_SPIS2_SPI2 -> single("SPIM2")
      [] interrupt = ADC -> single("ADC")
      [] OTHER -> unrecognized

\* ------------------------------------------------------------------------
\* State
\* ------------------------------------------------------------------------
VARIABLES
    deferred,     \* kernel::common::deferred_call: the tokens that are pending
    pending,      \* NVIC: the vectors whose pending bit is set
    nvicEnabled,  \* NVIC: the vectors that are enabled
    debug_assertions, \* whether the build keeps debug_assert!
    pc,           \* where the kernel thread is: "idle", "loop", "clear",
                  \* "enable", "done" (the loop returned), "panic"
    cur,          \* `interrupt`, the vector the loop has taken (NoVector
                  \* outside the loop)
    last,         \* the most recent service_interrupt call of the current
                  \* call of the loop, and its result
    trace,        \* what the current call of the loop has done so far
    arrivals,     \* number of arrivals so far
    posts,        \* number of tokens handlers have posted so far
    arrived,      \* an arrival has happened since the current call began
    hist,         \* the work of the current call of the loop: what was
                  \* pending when it began (kept until something else
                  \* arrives), how often each vector / a token became
                  \* pending, and the router calls it made
    hp            \* the answer the scheduler holds from has_pending_interrupts():
                  \* "true" or "false", "none" before the first call of the
                  \* query and once the scheduler has entered the loop

vars == <<deferred, pending, nvicEnabled, debug_assertions, pc, cur, last,
          trace, arrivals, posts, arrived, hist, hp>>

\* DeferredCallTask has the single variant Nvmc.
Tasks == {"Nvmc"}
Vectors == 0..MaxVector
NoVector == -1

Ev(ev, v, p) == [ev |-> ev, v |-> v, p |-> p]

\* A router call as `last` keeps it: the vector passed in, what is_enabled()
\* of the peripherals sharing that vector answers, and the result.
Call(interrupt, en, r) ==
    [interrupt |-> interrupt, answers |-> en \cap Members(interrupt)] @@ r
NoCall == Call(NoVector, {}, Result(<<>>, {}, FALSE, "none"))

\* The work of a call of the loop that begins with tokens d and vectors p
\* pending.
StartHist(d, p) ==
    [start |-> <<[deferred |-> d, pending |-> p]>>,
     raised |-> [v \in Vectors |-> IF v \in p THEN 1 ELSE 0],
     posted |-> Cardinality(d),
     routed |-> <<>>]

\* An arrival: what was pending at the start is no longer all the work.
Arrival(h) == [h EXCEPT !.start = <<>>]

InLoop == pc \in {"loop", "clear", "enable"}

Min(S) == CHOOSE x \in S : \A y \in S : x <= y

\* deferred_call::DeferredCall::next_pending(): the pending token with the
\* lowest bit, which the call also clears.
deferred_next_pending(d) == CHOOSE t \in d : TRUE
\* nvic::next_pending(): the lowest pending vector; its pending bit stays set.
nvic_next_pending(p) == Min(p)

\* Variant: the Nvmc arm of `match task` runs no handler of the NVMC.
task_handler_wrong(task) == CASE task = "Nvmc" -> "none"

\* The handler a deferred token is matched to (the match at lines 134-136).
task_handler(task) == CASE task = "Nvmc" -> "NVMC"

\* Variant: the loop has no `else if` arm for hardware vectors.
loop_branch_tasks_only(d, p) ==
    IF d # {} THEN "task" ELSE "break"

\* Variant: the hardware vector is looked for before the deferred token.
loop_branch_interrupt_first(d, p) ==
    IF p # {} THEN "interrupt"
    ELSE IF d # {} THEN "task"
    ELSE "break"

\* Variant: the loop has no `else { break; }` and spins when nothing is
\* pending.
loop_branch_no_break(d, p) ==
    IF d # {} THEN "task"
    ELSE IF p # {} THEN "interrupt"
    ELSE "spin"

\* Which arm of the if / else if / else of the loop body runs.
loop_branch(d, p) ==
    IF d # {} THEN "task"
    ELSE IF p # {} THEN "interrupt"
    ELSE "break"

\* Variant: only the NVIC is asked.
has_pending_nvic_only(d, p) == p # {}

\* has_pending_interrupts(): nvic::has_pending() || deferred_call::has_tasks()
has_pending_interrupts(d, p) == (p # {}) \/ (d # {})

\* Variant: a vector the router does not recognize is not re-armed.
after_service_skip_unrecognized(r) ==
    IF r.outcome = "panic" THEN "panic"
    ELSE IF r.outcome = "false" THEN "loop"
    ELSE "clear"

\* Where the loop goes once service_interrupt is over: on to Nvic::new /
\* clear_pending whatever was returned, nowhere after a panic.
after_service(r) == IF r.outcome = "panic" THEN "panic" ELSE "clear"

\* Variant: the router is handed the vector below the one that was taken.
routed_vector_off_by_one(interrupt) == IF interrupt > 0 THEN interrupt - 1 ELSE interrupt

\* The argument of the service_interrupt call at line 138: the vector that
\* nvic::next_pending() returned.
routed_vector(interrupt) == interrupt

\* Variant: the diagnostic is printed when the router returns true.
emits_diag_inverted(r) == r.outcome = "true"

\* `if !service_interrupt(interrupt) { debug!(...) }`: whether the loop
\* prints its diagnostic after router result r.
emits_diag(r) == r.outcome = "false"

\* What the router call on `interrupt` adds to the trace: the handlers it
\* ran and the debug! line of the RADIO conflict arm.
RouterEvents(r) ==
    [i \in 1..Len(r.handled) |-> Ev("handle", NoVector, r.handled[i])]
    \o (IF r.debug THEN <<Ev("debug", NoVector, "")>> ELSE <<>>)

\* The events of the `else if let Some(interrupt)` arm up to clear_pending.
interrupt_events(interrupt, r) ==
    <<Ev("take", interrupt, "")>> \o RouterEvents(r)
    \o (IF emits_diag(r) THEN <<Ev("diag", interrupt, "")>> ELSE <<>>)

Init ==
    /\ deferred = {}
    /\ pending = {}
    /\ nvicEnabled = Vectors
    /\ debug_assertions \in BOOLEAN
    /\ pc = "idle"
    /\ cur = NoVector
    /\ last = NoCall
    /\ trace = <<>>
    /\ arrivals = 0
    /\ posts = 0
    /\ arrived = FALSE
    /\ hist = StartHist({}, {})
    /\ hp = "none"

\* ------------------------------------------------------------------------
\* Environment: hardware raising vectors, drivers posting deferred calls
\* ------------------------------------------------------------------------
\* A peripheral raises vector v. The generic interrupt stub disables the
\* vector and leaves its pending bit set for the servicing loop.
Raise(v) ==
    /\ pc # "panic"
    /\ arrivals < MaxArrivals
    /\ pending' = pending \cup {v}
    /\ nvicEnabled' = nvicEnabled \ {v}
    /\ arrivals' = arrivals + 1
    /\ arrived' = TRUE
    /\ hist' = IF InLoop /\ v \notin pending
               THEN Arrival([hist EXCEPT !.raised[v] = @ + 1])
               ELSE Arrival(hist)
    /\ UNCHANGED <<deferred, debug_assertions, pc, cur, last, trace, posts, hp>>

\* A driver posts token t from task context, outside the servicing loop.
Post(t) ==
    /\ pc \in {"idle", "done"}
    /\ arrivals < MaxArrivals
    /\ deferred' = deferred \cup {t}
    /\ arrivals' = arrivals + 1
    /\ arrived' = TRUE
    /\ hist' = Arrival(hist)
    /\ UNCHANGED <<pending, nvicEnabled, debug_assertions, pc, cur, last, trace,
                   posts, hp>>

\* A handle_interrupt() that runs inside the loop may post a token: from
\* deferred set d, either nothing is posted or token t is.
HandlerPosts(d, post, t) ==
    IF post
    THEN /\ posts < MaxPosts
         /\ deferred' = d \cup {t}
         /\ posts' = posts + 1
         /\ arrived' = TRUE
    ELSE /\ deferred' = d
         /\ UNCHANGED <<posts, arrived>>

\* ------------------------------------------------------------------------
\* NRF52 (kernel::Chip)
\* ------------------------------------------------------------------------
\* The scheduler calls service_pending_interrupts().
Enter ==
    /\ pc \in {"idle", "done"}
    /\ pc' = "loop"
    /\ trace' = <<>>
    /\ last' = NoCall
    /\ arrived' = FALSE
    /\ hist' = StartHist(deferred, pending)
    /\ hp' = "none"
    /\ UNCHANGED <<deferred, pending, nvicEnabled, debug_assertions, cur,
                   arrivals, posts>>

\* if let Some(task) = next_pending() { match task { Nvmc => NVMC.handle_interrupt() } }
ServiceTask ==
    /\ pc = "loop"
    /\ loop_branch(deferred, pending) = "task"
    /\ LET task == deferred_next_pending(deferred)
       IN  /\ trace' = trace \o <<Ev("token", NoVector, task),
                                  Ev("handle", NoVector, task_handler(task))>>
           /\ \E post \in BOOLEAN, t \in Tasks :
                 HandlerPosts(deferred \ {task}, post, t)
           /\ hist' = [hist EXCEPT
                 !.start = IF arrived' THEN <<>> ELSE @,
                 !.posted = @ + Cardinality(deferred' \ (deferred \ {task}))]
    /\ UNCHANGED <<pending, nvicEnabled, debug_assertions, pc, cur, last,
                   arrivals, hp>>

\* else if let Some(interrupt) = nvic::next_pending() {
\*     if !service_interrupt(interrupt) { debug!(...) }
\* up to the point where the Nvic is built. A panic inside the router ends
\* the run.
ServiceInterrupt ==
    /\ pc = "loop"
    /\ loop_branch(deferred, pending) = "interrupt"
    /\ LET interrupt == nvic_next_pending(pending)
       IN  \E en \in SUBSET SharedPeripherals :
             LET r == service_interrupt(routed_vector(interrupt), en, debug_assertions)
             IN  /\ last' = Call(routed_vector(interrupt), en, r)
                 /\ cur' = interrupt
                 /\ trace' = trace \o interrupt_events(interrupt, r)
                 /\ pc' = after_service(r)
                 /\ IF r.handled # <<>>
                    THEN \E post \in BOOLEAN, t \in Tasks :
                            HandlerPosts(deferred, post, t)
                    ELSE UNCHANGED <<deferred, posts, arrived>>
                 /\ hist' = [hist EXCEPT
                       !.start = IF arrived' THEN <<>> ELSE @,
                       !.posted = @ + Cardinality(deferred' \ deferred),
                       !.routed = Append(@, [interrupt |-> routed_vector(interrupt),
                                             outcome |-> r.outcome])]
    /\ UNCHANGED <<pending, nvicEnabled, debug_assertions, arrivals, hp>>

\* n.clear_pending()
ClearPending ==
    /\ pc = "clear"
    /\ pending' = pending \ {cur}
    /\ trace' = Append(trace, Ev("clear", cur, ""))
    /\ pc' = "enable"
    /\ UNCHANGED <<deferred, nvicEnabled, debug_assertions, cur, last, arrivals,
                   posts, arrived, hist, hp>>

\* n.enable()
Enable ==
    /\ pc = "enable"
    /\ nvicEnabled' = nvicEnabled \cup {cur}
    /\ trace' = Append(trace, Ev("enable", cur, ""))
    /\ pc' = "loop"
    /\ UNCHANGED <<deferred, pending, debug_assertions, cur, last, arrivals,
                   posts, arrived, hist, hp>>

\* else { break; }
Break ==
    /\ pc = "loop"
    /\ loop_branch(deferred, pending) = "break"
    /\ trace' = Append(trace, Ev("return", NoVector, ""))
    /\ pc' = "done"
    /\ cur' = NoVector
    /\ UNCHANGED <<deferred, pending, nvicEnabled, debug_assertions, last,
                   arrivals, posts, arrived, hist, hp>>

\* The scheduler calls has_pending_interrupts().
HasPending ==
    /\ pc \in {"idle", "done"}
    /\ hp' = IF has_pending_interrupts(deferred, pending) THEN "true" ELSE "false"
    /\ UNCHANGED <<deferred, pending, nvicEnabled, debug_assertions, pc, cur,
                   last, trace, arrivals, posts, arrived, hist>>

Next ==
    \/ \E v \in Vectors : Raise(v)
    \/ \E t \in Tasks : Post(t)
    \/ Enter
    \/ ServiceTask
    \/ ServiceInterrupt
    \/ ClearPending
    \/ Enable
    \/ Break
    \/ HasPending

Spec == Init /\ [][Next]_vars

\* The kernel thread keeps executing: a step of the loop that can be taken
\* is taken. Nothing obliges the scheduler to call, or work to arrive.
LoopStep == ServiceTask \/ ServiceInterrupt \/ ClearPending \/ Enable \/ Break

FairSpec == Spec /\ WF_vars(LoopStep)

\* ------------------------------------------------------------------------
\* The router on its own: service_interrupt applied to every vector number
\* up to MaxInterrupt under every combination of is_enabled() answers.
\* ------------------------------------------------------------------------
RouterCall ==
    \E interrupt \in 0..MaxInterrupt, en \in SUBSET SharedPeripherals :
        /\ last' = Call(interrupt, en, service_interrupt(interrupt, en, debug_assertions))
        /\ UNCHANGED <<deferred, pending, nvicEnabled, debug_assertions, pc, cur,
                       trace, arrivals, posts, arrived, hist, hp>>

RouterNext == RouterCall

RouterSpec == Init /\ [][RouterNext]_vars

TypeOK ==
    /\ deferred \subseteq Tasks
    /\ pending \subseteq Vectors
    /\ nvicEnabled \subseteq Vectors
    /\ pc \in {"idle", "loop", "clear", "enable", "done", "panic"}
    /\ arrivals \in 0..MaxArrivals
    /\ posts \in 0..MaxPosts
    /\ hp \in {"none", "true", "false"}

\* ------------------------------------------------------------------------
\* Properties of the servicing loop
\* ------------------------------------------------------------------------
Returned == pc = "done"

EvIndices(kind) == {i \in 1..Len(trace) : trace[i].ev = kind}

\* C1 (Exhaustion): when service_pending_interrupts() has returned and no
\* work arrived since the call began, no deferred token is pending and no
\* vector is pending in the interrupt controller.
C1_Exhaustion ==
    (Returned /\ ~arrived) => (deferred = {} /\ pending = {})

\* A call that started with a token and a vector pending, the vector
\* unknown to the router, has returned with no arrival in between.
C1_Witness ==
    /\ Returned /\ ~arrived
    /\ EvIndices("token") # {}
    /\ EvIndices("take") # {}
    /\ EvIndices("diag") # {}

\* C2 (Priority): an iteration of the loop that finds a deferred token
\* pending runs that token's handler (NVMC.handle_interrupt for Nvmc) and
\* takes no vector: it adds exactly the token and its handler to what the
\* call has done, touches neither the pending bits nor the router, and goes
\* on with the next iteration.
C2_Priority ==
    [][(pc = "loop" /\ deferred # {} /\ trace' # trace) =>
          /\ trace' = trace \o <<Ev("token", NoVector, "Nvmc"),
                                 Ev("handle", NoVector, "NVMC")>>
          /\ pc' = "loop"
          /\ UNCHANGED <<pending, nvicEnabled, cur, last>>]_vars

\* A call that began with a token and a vector both pending: the token's
\* handler ran first, then the vector was taken and its handler ran.
C2_Witness ==
    /\ ~arrived
    /\ Len(trace) >= 4
    /\ trace[1] = Ev("token", NoVector, "Nvmc")
    /\ trace[2] = Ev("handle", NoVector, "NVMC")
    /\ trace[3].ev = "take"
    /\ trace[4].ev = "handle"

\* The loop moves on to its next item at a token, a take or the return.
IsBoundary(e) == e.ev \in {"token", "take", "return"}
IsRearm(e) == e.ev \in {"clear", "enable"}

\* Last index of the part of the trace that belongs to the item begun at i.
SegEnd(i) ==
    LET later == {j \in (i + 1)..Len(trace) : IsBoundary(trace[j])}
    IN  IF later = {} THEN Len(trace) ELSE Min(later) - 1

\* The clear_pending / enable calls made for the item begun at i.
Rearm(i) == SelectSeq(SubSeq(trace, i + 1, SegEnd(i)), IsRearm)

\* The loop is past the item begun at i.
Proceeded(i) == SegEnd(i) < Len(trace) \/ pc \in {"loop", "done"}

\* C3 (Re-arming): for every vector taken whose router call returned,
\* recognized or not, the loop calls clear_pending and then enable on that
\* vector, each once, after the router call and before it takes the next
\* token or vector; nothing else is ever cleared or enabled.
C3_Rearming ==
    /\ \A i \in EvIndices("take") :
          LET v == trace[i].v
              full == <<Ev("clear", v, ""), Ev("enable", v, "")>>
              n == Len(Rearm(i))
          IN  /\ IF Proceeded(i)
                 THEN Rearm(i) = full
                 ELSE n <= 1 /\ Rearm(i) = SubSeq(full, 1, n)
              \* the re-arm calls come last, after the handlers and the diagnostic
              /\ SubSeq(trace, SegEnd(i) - n + 1, SegEnd(i)) = Rearm(i)
    /\ \A i \in EvIndices("token") : Rearm(i) = <<>>
    /\ \A j \in 1..Len(trace) :
          IsRearm(trace[j]) => \E i \in 1..(j - 1) : IsBoundary(trace[i])

\* The loop has re-armed a vector the router does not know and a vector it
\* serviced, and is back at the top of the loop.
C3_Witness ==
    /\ pc = "loop"
    /\ \E i \in EvIndices("diag") :
          /\ trace[i + 1] = Ev("clear", trace[i].v, "")
          /\ trace[i + 2] = Ev("enable", trace[i].v, "")
    /\ \E i \in EvIndices("handle") :
          /\ trace[i].p # "NVMC"
          /\ trace[i + 1].ev = "clear"
          /\ trace[i + 2].ev = "enable"

\* ------------------------------------------------------------------------
\* Properties of the router, stated on the most recent call `last`
\* ------------------------------------------------------------------------
\* The dispatch table as the design states it: the single owner of each
\* unshared vector.
Owner ==
    [v \in {ECB, GPIOTE, POWER_CLOCK, RNG, RTC1, TEMP, TIMER0, TIMER1, TIMER2,
            UART0, SPIM2_SPIS2_SPI2, ADC} |->
        CASE v = ECB -> "AESECB"
          [] v = GPIOTE -> "gpio_port"
          [] v = POWER_CLOCK -> "POWER"
          [] v = RNG -> "TRNG"
          [] v = RTC1 -> "RTC"
          [] v = TEMP -> "TEMP"
          [] v = TIMER0 -> "TIMER0"
          [] v = TIMER1 -> "ALARM1"
          [] v = TIMER2 -> "TIMER2"
          [] v = UART0 -> "UARTE0"
          [] v = SPIM2_SPIS2_SPI2 -> "SPIM2"
          [] v = ADC -> "ADC"]

SingleVectors == DOMAIN Owner
TableVectors == SingleVectors \cup SharedVectors

Called == last.interrupt # NoVector
BothEnabled == last.interrupt \in SharedVectors /\ last.answers = Members(last.interrupt)
NoneEnabled == last.interrupt \in SharedVectors /\ last.answers = {}
OnlyEnabled(m) == last.interrupt \in SharedVectors /\ last.answers = {m}

\* C4 (shared group, exactly one enabled): a call on RADIO, SPI0_TWI0 or
\* SPI1_TWI1 while exactly one member of the group answers is_enabled() =
\* true invokes that member's handle_interrupt() once, does not invoke the
\* other member's, and returns true.
C4_ExactlyOneEnabled ==
    \A v \in SharedVectors : \A m \in Members(v) :
        (last.interrupt = v /\ OnlyEnabled(m)) =>
            (last.handled = <<m>> /\ last.outcome = "true")

\* The second member of a group was the only one enabled and was serviced.
C4_Witness ==
    /\ last.interrupt = SPI1_TWI1
    /\ OnlyEnabled("TWIM1")
    /\ last.handled = <<"TWIM1">>

\* C5 (shared group, none enabled): a call on a shared vector while no
\* member answers enabled invokes no handler and returns true; the loop
\* that made the call has then printed no diagnostic and goes on to
\* clear_pending.
C5_NoneEnabled ==
    NoneEnabled =>
        /\ last.handled = <<>>
        /\ last.outcome = "true"
        /\ ~last.debug
        /\ pc = "clear" => trace[Len(trace)] = Ev("take", last.interrupt, "")

\* The loop took RADIO with both radios off and re-armed it.
C5_Witness ==
    /\ NoneEnabled
    /\ last.interrupt = RADIO
    /\ pc = "loop"
    /\ Len(trace) >= 3
    /\ SubSeq(trace, Len(trace) - 2, Len(trace)) =
          <<Ev("take", RADIO, ""), Ev("clear", RADIO, ""), Ev("enable", RADIO, "")>>

\* C6 (shared group, both enabled, no guess): a call on a shared vector
\* while both members answer enabled invokes neither member's handler.
C6_BothEnabledNoGuess ==
    BothEnabled => last.handled = <<>>

\* Both radios answered enabled on a RADIO call.
C6_Witness ==
    /\ BothEnabled
    /\ last.interrupt = RADIO
    /\ last.queried = {"ieee802154_radio", "ble_radio"}

\* C7 (shared group, both enabled, fatal stop): a call on any shared vector
\* while both members answer enabled does not return: it ends in the fatal
\* path, and the loop neither clears nor re-enables the vector.
C7_BothEnabledFatal ==
    BothEnabled => (last.outcome = "panic" /\ pc \notin {"clear", "enable", "loop", "done"})

\* C8 as claimed (unknown vector): a vector outside the table makes the
\* call return false with no handler invoked and no is_enabled() read; a
\* vector in the table makes it return true.
C8_UnknownVectorOriginal ==
    Called =>
        IF last.interrupt \in TableVectors
        THEN last.outcome = "true"
        ELSE last.outcome = "false" /\ last.handled = <<>> /\ last.queried = {}

\* C8 as amended: a vector outside the table makes the call return false
\* with no handler invoked and no is_enabled() read; a vector in the table
\* makes it return true, unless the call ends in the failed debug_assert!
\* of SPI0_TWI0 / SPI1_TWI1 (both members enabled, debug assertions on) and
\* does not return.
C8_UnknownVector ==
    Called =>
        IF last.interrupt \in TableVectors
        THEN \/ last.outcome = "true"
             \/ /\ last.outcome = "panic"
                /\ last.interrupt \in {SPI0_TWI0, SPI1_TWI1}
                /\ BothEnabled
                /\ debug_assertions
        ELSE last.outcome = "false" /\ last.handled = <<>> /\ last.queried = {}

\* The router was called on a vector above every table entry.
C8_Witness ==
    /\ last.interrupt = SPIM2_SPIS2_SPI2 + 1
    /\ last.outcome = "false"

\* C9: has_pending_interrupts() returns true exactly when a token or a
\* vector is pending, and the call changes neither the pending tokens, nor
\* the pending vectors, nor a vector's enable state, and runs no handler.
\* (The steps the scheduler takes outside the loop that are neither the
\* entry into the loop nor an arrival are the calls of the query.)
C9_HasPending ==
    [][(pc \in {"idle", "done"} /\ pc' = pc /\ arrivals' = arrivals) =>
          /\ hp' = IF deferred # {} \/ pending # {} THEN "true" ELSE "false"
          /\ UNCHANGED <<deferred, pending, nvicEnabled, trace, last, cur>>]_vars

\* Before any servicing, the query answered true with only a token pending.
C9_Witness ==
    /\ pc = "idle"
    /\ hp = "true"
    /\ deferred = {"Nvmc"}
    /\ pending = {}

\* C10 (single-owner vector): a call on a table vector with one owner
\* invokes that owner's handle_interrupt() once and nothing else, reads no
\* is_enabled(), and returns true.
C10_SingleOwner ==
    last.interrupt \in SingleVectors =>
        /\ last.handled = <<Owner[last.interrupt]>>
        /\ last.queried = {}
        /\ last.outcome = "true"

\* The highest single-owner vector was dispatched to its owner.
C10_Witness ==
    /\ last.interrupt = SPIM2_SPIS2_SPI2
    /\ last.handled = <<"SPIM2">>

\* ------------------------------------------------------------------------
\* Properties of whole calls of the loop
\* ------------------------------------------------------------------------
\* The call began with tokens d and vectors p pending, and nothing has
\* arrived since.
StartedWith(d, p) == hist.start = <<[deferred |-> d, pending |-> p]>>

C11_Expected ==
    <<Ev("token", NoVector, "Nvmc"),
      Ev("handle", NoVector, "NVMC"),
      Ev("take", RADIO, ""),
      Ev("handle", NoVector, "ieee802154_radio"),
      Ev("clear", RADIO, ""),
      Ev("enable", RADIO, ""),
      Ev("return", NoVector, "")>>

\* C11 (end-to-end trace): a call that begins with one Nvmc token and the
\* RADIO vector pending, the 802.15.4 radio answering enabled and the BLE
\* radio disabled, and that nothing else reaches, does exactly this:
\* NVMC.handle_interrupt; take RADIO; the 802.15.4 handler (never the BLE
\* one); clear_pending(RADIO); enable(RADIO); return with both sources
\* empty. Before the router is called it has done a prefix of it.
C11_EndToEnd ==
    StartedWith({"Nvmc"}, {RADIO}) =>
        /\ (pc \in {"loop", "clear", "enable", "done"} /\ last = NoCall) =>
               \E n \in 0..2 : trace = SubSeq(C11_Expected, 1, n)
        /\ (pc = "done" /\ last.answers = {"ieee802154_radio"}) =>
               (trace = C11_Expected /\ deferred = {} /\ pending = {})

\* The scenario has run to its return.
C11_Witness ==
    /\ StartedWith({"Nvmc"}, {RADIO})
    /\ pc = "done"
    /\ last.interrupt = RADIO
    /\ last.answers = {"ieee802154_radio"}
    /\ Len(trace) = 7

\* C12 as claimed: the servicing loop cannot fail: whatever is pending and
\* whatever is_enabled() answers, the call never ends other than by
\* returning to the scheduler; called with nothing pending it returns at
\* once, having invoked no handler and no clear_pending / enable.
C12_CannotFailOriginal ==
    /\ pc # "panic"
    /\ (pc = "done" /\ StartedWith({}, {})) =>
           (trace = <<Ev("return", NoVector, "")>> /\ last = NoCall)

\* C12 as amended: the call never ends other than by returning, except in
\* a build with debug assertions when SPI0_TWI0 or SPI1_TWI1 is serviced
\* while both of its members are enabled: the router's debug_assert! then
\* panics. Called with nothing pending it returns at once, having invoked
\* no handler and no clear_pending / enable.
C12_CannotFail ==
    /\ pc = "panic" =>
           /\ debug_assertions
           /\ last.interrupt \in {SPI0_TWI0, SPI1_TWI1}
           /\ BothEnabled
           /\ last.outcome = "panic"
    /\ (pc = "done" /\ StartedWith({}, {})) =>
           (trace = <<Ev("return", NoVector, "")>> /\ last = NoCall)

\* A call returned although it met a vector the router does not know and
\* the RADIO conflict.
C12_Witness ==
    /\ pc = "done"
    /\ EvIndices("diag") # {}
    /\ EvIndices("debug") # {}

\* The events a step adds to the trace.
NewEvents == SubSeq(trace', Len(trace) + 1, Len(trace'))
Extends == Len(trace') > Len(trace) /\ SubSeq(trace', 1, Len(trace)) = trace

Takes(v) == {i \in EvIndices("take") : trace[i].v = v}

\* Every occasion on which a vector or a token became pending, before or
\* during the call, has been taken once by the time the call has returned.
AllServiced ==
    pc = "done" =>
        /\ \A v \in Vectors : Cardinality(Takes(v)) = hist.raised[v]
        /\ Cardinality(EvIndices("token")) = hist.posted

\* The call returns only from an iteration that finds no token and then no
\* pending vector.
BreaksWhenEmpty ==
    (pc = "loop" /\ pc' = "done") => (deferred = {} /\ pending = {})

\* While a token is pending (posted during a handler, say), no step of the
\* loop takes a vector.
TokenBeforeVector ==
    (InLoop /\ deferred # {} /\ Extends) =>
        \A i \in 1..Len(NewEvents) : NewEvents[i].ev # "take"

\* C13 (re-check after acting): work that becomes pending while the loop is
\* servicing another item is serviced in the same call; the call returns
\* only from an iteration that found the deferred queue and then the
\* interrupt controller empty; a token posted while a vector is serviced is
\* dispatched before the next vector is taken.
C13_Recheck ==
    []AllServiced /\ [][BreaksWhenEmpty /\ TokenBeforeVector]_vars

\* A call has returned in which a vector's handler posted a token and the
\* token was dispatched before the next vector was taken.
C13_Witness ==
    /\ pc = "done"
    /\ hist.posted = 1
    /\ \E i \in EvIndices("enable") :
          /\ i + 3 <= Len(trace)
          /\ trace[i + 1].ev = "token"
          /\ trace[i + 2] = Ev("handle", NoVector, "NVMC")
          /\ trace[i + 3].ev = "take"

\* C14 as claimed (termination without livelock): with finitely many
\* arrivals, a call of the loop eventually returns, also when a pending
\* vector is unknown to the router.
C14_TerminatesOriginal == InLoop ~> (pc = "done")

\* C14 as amended: with finitely many arrivals, a call of the loop
\* eventually returns or ends in the panic of the router's debug_assert!;
\* it does not livelock, also when a pending vector is unknown to the
\* router.
C14_Terminates == InLoop ~> (pc \in {"done", "panic"})

\* A call returned after taking the vector the router does not know twice:
\* the hardware raised it again after it was cleared.
C14_Witness ==
    /\ pc = "done"
    /\ \E v \in Vectors :
          /\ Cardinality(Takes(v)) = 2
          /\ \A i \in Takes(v) : trace[i + 1] = Ev("diag", v, "")

\* The handle_interrupt() calls made for the item begun at trace index i.
IsHandle(e) == e.ev = "handle"
Handlers(i) == SelectSeq(SubSeq(trace, i + 1, SegEnd(i)), IsHandle)

\* The router calls of this call of the loop that were passed vector v.
RoutedWith(v) == {k \in 1..Len(hist.routed) : hist.routed[k].interrupt = v}

\* C15 (exactly-once servicing): within a call of the loop every token
\* taken from the deferred queue has run its handler exactly once (Nvmc ->
\* NVMC.handle_interrupt), every vector number has been passed to the
\* router as many times as it was taken from the NVIC, no handler ran
\* outside the item of a taken token or vector, and the router was called
\* with nothing that was not taken.
C15_ExactlyOnce ==
    /\ \A i \in EvIndices("token") :
          /\ trace[i].p = "Nvmc"
          /\ Handlers(i) = <<Ev("handle", NoVector, "NVMC")>>
    /\ \A j \in EvIndices("handle") :
          \E i \in EvIndices("token") \cup EvIndices("take") :
              i < j /\ j <= SegEnd(i)
    /\ \A k \in 1..Len(hist.routed) : hist.routed[k].interrupt \in Vectors
    /\ \A v \in Vectors : Cardinality(Takes(v)) = Cardinality(RoutedWith(v))

\* A call that returned after taking one token and two different vectors.
C15_Witness ==
    /\ pc = "done"
    /\ Cardinality(EvIndices("token")) = 1
    /\ Cardinality(EvIndices("take")) = 2
    /\ \E v \in Vectors : Cardinality(Takes(v)) = 1 /\ Cardinality(RoutedWith(v)) = 1

\* The vector numbers next_pending() returned in this call, in order, and
\* the vector numbers the router was called with, in order.
IsTake(e) == e.ev = "take"
TakenVectors ==
    LET takes == SelectSeq(trace, IsTake)
    IN  [k \in 1..Len(takes) |-> takes[k].v]
RoutedVectors == [k \in 1..Len(hist.routed) |-> hist.routed[k].interrupt]

\* C16 (no reordering): within one call of the loop the sequence of vector
\* numbers passed to the router is the sequence next_pending() returned, in
\* the same order, and the vector being cleared and re-enabled is the one
\* the router was last called with.
C16_NoReordering ==
    /\ RoutedVectors = TakenVectors
    /\ pc \in {"clear", "enable", "panic"} =>
          (last.interrupt = cur /\ cur = TakenVectors[Len(TakenVectors)])

\* A call routed SPI0_TWI0 and then RADIO, which was raised later: the
\* order is that of next_pending(), not that of the vector numbers.
C16_Witness ==
    /\ pc = "done"
    /\ RoutedVectors = <<SPI0_TWI0, RADIO>>
    /\ TakenVectors = <<SPI0_TWI0, RADIO>>

\* Trace index of the k-th vector taken in this call.
TakeIndex(k) ==
    CHOOSE i \in EvIndices("take") :
        Cardinality({j \in EvIndices("take") : j <= i}) = k

\* The diagnostics of the loop printed for the item begun at trace index i.
IsDiag(e) == e.ev = "diag"
Diags(i) == SelectSeq(SubSeq(trace, i + 1, SegEnd(i)), IsDiag)

\* C17 (unrecognized-vector diagnostic): for every vector taken, the loop
\* prints one diagnostic naming that vector when the router returned false
\* for it and none otherwise; no diagnostic is printed elsewhere; and after
\* the diagnostic the loop goes on: it clears the vector's pending bit next
\* and returns only when every token and vector that became pending has
\* been taken.
C17_Diagnostic ==
    /\ Len(hist.routed) = Cardinality(EvIndices("take"))
    /\ \A k \in 1..Len(hist.routed) :
          LET i == TakeIndex(k)
          IN  Diags(i) = IF hist.routed[k].outcome = "false"
                         THEN <<Ev("diag", trace[i].v, "")>>
                         ELSE <<>>
    /\ \A j \in EvIndices("diag") :
          /\ \E i \in EvIndices("take") : i < j /\ j <= SegEnd(i)
          /\ IF j < Len(trace)
             THEN trace[j + 1] = Ev("clear", trace[j].v, "")
             ELSE pc = "clear"
    /\ (pc = "done" /\ EvIndices("diag") # {}) =>
          /\ trace[Len(trace)] = Ev("return", NoVector, "")
          /\ \A v \in Vectors : Cardinality(Takes(v)) = hist.raised[v]
          /\ Cardinality(EvIndices("token")) = hist.posted

\* A call whose first vector was unknown to the router and whose second
\* was serviced: one diagnostic, for the first.
C17_Witness ==
    /\ pc = "done"
    /\ Len(hist.routed) = 2
    /\ hist.routed[1].outcome = "false"
    /\ hist.routed[2].outcome = "true"
    /\ Cardinality(EvIndices("diag")) = 1
    /\ TakeIndex(1) + 1 \in EvIndices("diag")

\* The peripherals mapped to vector v in the router's table.
MappedTo(v) ==
    IF v \in SingleVectors THEN {Owner[v]}
    ELSE IF v \in SharedVectors THEN Members(v)
    ELSE {}

\* C18 (implicit): a call of service_interrupt invokes at most one
\* handle_interrupt(), and only of a peripheral mapped to the vector that
\* was passed in.
C18_AtMostOneMapped ==
    Called =>
        /\ Len(last.handled) <= 1
        /\ \A i \in 1..Len(last.handled) : last.handled[i] \in MappedTo(last.interrupt)

\* The first member of the SPI0/TWI0 group alone was enabled and serviced.
C18_Witness ==
    /\ last.interrupt = SPI0_TWI0
    /\ last.answers = {SharedGroup[SPI0_TWI0][1]}
    /\ last.handled = <<SharedGroup[SPI0_TWI0][1]>>

\* A step that takes a vector leaves an iteration that found the deferred
\* queue empty, and the vector was pending.
TakenOnlyWhenQueueEmpty ==
    (Extends /\ \E i \in 1..Len(NewEvents) : NewEvents[i].ev = "take") =>
        /\ pc = "loop"
        /\ deferred = {}
        /\ NewEvents[1].ev = "take"
        /\ NewEvents[1].v \in pending

\* While an iteration finds the queue non-empty nothing takes a vector's
\* pending bit away and the call does not return.
StarvedWhileQueued ==
    (pc = "loop" /\ deferred # {}) =>
        /\ pc' = "loop"
        /\ pending \subseteq pending'
        /\ cur' = cur
        /\ last' = last

\* An iteration that finds the queue empty and a vector pending takes a
\* pending vector.
EmptyQueueTakes ==
    (pc = "loop" /\ deferred = {} /\ pending # {} /\ trace' # trace) =>
        /\ Extends
        /\ NewEvents[1].ev = "take"
        /\ NewEvents[1].v \in pending
        /\ last'.interrupt = NewEvents[1].v

\* C19 (implicit): a pending vector is taken only in an iteration that
\* found the deferred queue empty; an iteration that finds a token takes no
\* vector and does not return, so handlers that re-post at every iteration
\* keep the vectors waiting and the call running; and once an iteration
\* finds the queue empty while a vector is pending, a pending vector is
\* passed to the router.
C19_QueueStarvesVectors ==
    /\ [][TakenOnlyWhenQueueEmpty /\ StarvedWhileQueued /\ EmptyQueueTakes]_vars
    /\ (pc = "loop" /\ deferred = {} /\ pending # {})
           ~> (pc \in {"clear", "panic"} /\ last.interrupt = cur /\ cur \in Vectors)

\* The NVMC handler has run and re-posted its token: the queue is not
\* empty again, a vector is pending and none has been taken so far.
C19_Witness ==
    /\ pc = "loop"
    /\ trace = <<Ev("token", NoVector, "Nvmc"), Ev("handle", NoVector, "NVMC")>>
    /\ posts = 1
    /\ deferred # {}
    /\ pending # {}
    /\ hist.posted = 2

====
